---- MODULE Spec2Model ----
(***************************************************************************)
(* Settings modal (SettingsModalV2): two pending-change buffers over the   *)
(* react-query snapshots of app, project and effective settings, and the   *)
(* mutations that write them to the settings store.                        *)
(***************************************************************************)
EXTENDS Integers, FiniteSets, Sequences, TLC

VARIABLES
    isOpen,                 \* prop isOpen
    projectName,            \* prop projectName (NoProject = null)
    storeApp,               \* settings store: app settings
    storeProject,           \* settings store: per-project overrides
    appSettings,            \* query data ['settings-v2-app']
    projectSettings,        \* query data ['settings-v2-project', projectName]
    effectiveSettings,      \* query data ['settings-v2-effective', projectName]
    queryStatus,            \* fetch status of the three queries
    pendingAppChanges,      \* useState buffer, app scope
    pendingProjectChanges,  \* useState buffer, project scope
    updateApp,              \* useMutation state
    updateProject,          \* useMutation state
    clearProjectSetting,    \* in-flight deletes, per (project, key)
    resetAppSettings,       \* useMutation status
    resetProjectSettings,   \* useMutation status
    savePc,                 \* where the async handleSave is suspended
    saveClosure,            \* pendingProjectChanges captured by handleSave
    editBase,               \* history: effective snapshot when an editing round began
    writes,                 \* write operations started so far (immediate apply, save, reset)
    saveRun,                \* history: how the last handleSave went
    resetDropped,           \* history: buffer entries removed by resets still in flight
    bufferProject           \* history: the project selected while the project buffer was filled

\* useServerHealth
VARIABLES
    isHealthy,              \* state.isHealthy
    lastCheck,              \* state.lastCheck (null or a Date)
    consecutiveFailures,    \* state.consecutiveFailures
    isRecovering,           \* state.isRecovering
    checkIntervalRef,       \* the interval timer id, null before the effect has run
    checksInFlight,         \* fetches of /api/health not yet settled, per caller
    lastResult              \* history: outcome of the last settled check and the
                            \* consecutiveFailures it found

settingsVars == <<isOpen, projectName, storeApp, storeProject, appSettings,
                  projectSettings, effectiveSettings, queryStatus, pendingAppChanges,
                  pendingProjectChanges, updateApp, updateProject, clearProjectSetting,
                  resetAppSettings, resetProjectSettings, savePc, saveClosure, editBase,
                  writes, saveRun, resetDropped, bufferProject>>

healthVars == <<isHealthy, lastCheck, consecutiveFailures, isRecovering,
                checkIntervalRef, checksInFlight, lastResult>>

vars == <<settingsVars, healthVars>>

-----------------------------------------------------------------------------
\* Bounds and value domains

MaxClears == 2
MaxWrites == 2
\* consecutive failed health checks followed, and checks in flight per caller
MaxFailures == 5
MaxInFlight == 2

\* null: a project setting with no override
Null == "null"
\* projectName = null
NoProject == "noProject"

Projects == {"p1", "p2"}
Val == {"false", "true"}

\* faulty variant: showDebugPanel is missing from the set
UI_ONLY_SETTINGS_NoDebugPanel ==
    {"celebrateOnComplete", "theme", "darkMode", "debugPanelHeight", "kanbanColumns"}

UI_ONLY_SETTINGS ==
    {"showDebugPanel", "celebrateOnComplete", "theme", "darkMode",
     "debugPanelHeight", "kanbanColumns"}

\* keys of the app settings
AppKeys == {"yoloMode", "autoCommit", "showDebugPanel"}

\* keys the app tab edits through handleAppChange (a subset of its call sites)
AppEditKeys == {"yoloMode", "showDebugPanel"}

\* keys the project tab edits through handleProjectChange
ProjectEditKeys == {"yoloMode", "autoCommit"}

Keys == AppKeys \cup ProjectEditKeys

Queries == {"app", "project", "effective"}

\* {} ; it also stands for the undefined data of a query that has not loaded
EmptyMap == [k \in {} |-> "false"]

Unloaded == [settings |-> EmptyMap, sources |-> EmptyMap]

\* { ...prev, ...update }
Merge(prev, update) ==
    [k \in (DOMAIN prev) \cup (DOMAIN update) |->
        IF k \in DOMAIN update THEN update[k] ELSE prev[k]]

\* const next = { ...prev }; delete next[key]
Without(prev, key) == [k \in (DOMAIN prev) \ {key} |-> prev[k]]

SchemaDefault == [k \in AppKeys |-> "false"]

NoOverrides == [k \in ProjectEditKeys |-> Null]

-----------------------------------------------------------------------------
\* The settings server

\* GET effective settings: the resolver
Resolve(app, project, k) ==
    IF k \in DOMAIN project /\ project[k] # Null
    THEN [value |-> project[k], source |-> "project"]
    ELSE IF k \in DOMAIN app
         THEN [value |-> app[k], source |-> "app"]
         ELSE [value |-> SchemaDefault[k], source |-> "default"]

ProjectOf(p) == IF p = NoProject THEN NoOverrides ELSE storeProject[p]

EffectiveOf(p) ==
    [settings |-> [k \in Keys |-> Resolve(storeApp, ProjectOf(p), k).value],
     sources  |-> [k \in Keys |-> Resolve(storeApp, ProjectOf(p), k).source]]

-----------------------------------------------------------------------------
\* Derived values of one render

isSaving == updateApp.status = "pending" \/ updateProject.status = "pending"

hasUnsavedAppChanges == DOMAIN pendingAppChanges # {}
hasUnsavedProjectChanges == DOMAIN pendingProjectChanges # {}
\* faulty variant: the project buffer is not counted
hasUnsavedChanges_AppOnly == hasUnsavedAppChanges

hasUnsavedChanges == hasUnsavedAppChanges \/ hasUnsavedProjectChanges

\* the fallback argument of the getEffective call sites
Fallback(k) == "false"

\* effectiveSettings?.sources?.[key] || 'default'
getSource(k) ==
    IF k \in DOMAIN effectiveSettings.sources
    THEN effectiveSettings.sources[k] ELSE "default"

getEffective(k) ==
    IF k \in DOMAIN pendingAppChanges THEN pendingAppChanges[k]
    ELSE IF k \in DOMAIN pendingProjectChanges THEN pendingProjectChanges[k]
    ELSE IF k \in DOMAIN effectiveSettings.settings THEN effectiveSettings.settings[k]
    ELSE Fallback(k)

getAppValue(k) ==
    IF k \in DOMAIN pendingAppChanges THEN pendingAppChanges[k]
    ELSE IF k \in DOMAIN appSettings THEN appSettings[k]
    ELSE "undefined"

\* a key counts as edited when getEffective takes its value from a buffer
isDirty(k) == k \in DOMAIN pendingAppChanges \/ k \in DOMAIN pendingProjectChanges

View(k) == [value |-> getEffective(k), source |-> getSource(k), isDirty |-> isDirty(k)]

\* {appSettings && ...}: the app tab renders its controls
AppTabShown == isOpen /\ DOMAIN appSettings # {}

\* projectName && projectSettings && ...: the project tab renders its controls
ProjectTabShown == isOpen /\ projectName # NoProject /\ DOMAIN projectSettings # {}

\* queryClient.invalidateQueries: an enabled query refetches at once
Invalidate(qs) ==
    [q \in Queries |->
        IF q \in qs /\ isOpen /\ (q = "project" => projectName # NoProject)
        THEN "fetching" ELSE queryStatus[q]]

Idle == [status |-> "idle", variables |-> EmptyMap, project |-> NoProject]

Pending(settings, p) == [status |-> "pending", variables |-> settings, project |-> p]

Settled(st) == [status |-> st, variables |-> EmptyMap, project |-> NoProject]

InFlightClears ==
    LET pks == Projects \X ProjectEditKeys
        RECURSIVE Sum(_)
        Sum(S) == IF S = {} THEN 0
                  ELSE LET x == CHOOSE y \in S : TRUE
                       IN clearProjectSetting[x] + Sum(S \ {x})
    IN Sum(pks)

\* every query has loaded and nothing is being fetched or written
Quiescent ==
    /\ \A q \in Queries : queryStatus[q] = "idle"
    /\ DOMAIN appSettings # {} /\ DOMAIN projectSettings # {}
    /\ DOMAIN effectiveSettings.settings # {}
    /\ ~isSaving /\ InFlightClears = 0
    /\ resetAppSettings # "pending" /\ resetProjectSettings.status # "pending"

TypeOK ==
    /\ isOpen \in BOOLEAN
    /\ projectName \in Projects \cup {NoProject}
    /\ storeApp \in [AppKeys -> Val]
    /\ storeProject \in [Projects -> [ProjectEditKeys -> Val \cup {Null}]]
    /\ queryStatus \in [Queries -> {"idle", "fetching", "error"}]
    /\ DOMAIN pendingAppChanges \subseteq AppKeys
    /\ DOMAIN pendingProjectChanges \subseteq ProjectEditKeys
    /\ savePc \in {"idle", "app", "project"}
    /\ Len(editBase) <= 1
    /\ saveRun \in {"none", "running", "retry", "interrupted", "failed", "done"}
    /\ DOMAIN resetDropped \subseteq ProjectEditKeys
    /\ bufferProject \in Projects \cup {"none", "mixed"}
    /\ isHealthy \in BOOLEAN /\ isRecovering \in BOOLEAN
    /\ lastCheck \in {"null", "date"}
    /\ consecutiveFailures \in 0..MaxFailures
    /\ checkIntervalRef \in {"null", "timer"}
    /\ checksInFlight \in [{"interval", "retry"} -> 0..MaxInFlight]
    /\ lastResult \in [outcome : {"none", "ok", "failed"}, failuresBefore : 0..MaxFailures]

\* useState({isHealthy: true, lastCheck: null, consecutiveFailures: 0,
\* isRecovering: false}); useRef(null)
HealthInit ==
    /\ isHealthy = TRUE
    /\ lastCheck = "null"
    /\ consecutiveFailures = 0
    /\ isRecovering = FALSE
    /\ checkIntervalRef = "null"
    /\ checksInFlight = [c \in {"interval", "retry"} |-> 0]
    /\ lastResult = [outcome |-> "none", failuresBefore |-> 0]

Init ==
    /\ HealthInit
    /\ isOpen = FALSE
    /\ projectName = "p1"
    /\ storeApp = SchemaDefault
    /\ storeProject = [p \in Projects |-> NoOverrides]
    /\ appSettings = EmptyMap
    /\ projectSettings = EmptyMap
    /\ effectiveSettings = Unloaded
    /\ queryStatus = [q \in Queries |-> "idle"]
    /\ pendingAppChanges = EmptyMap
    /\ pendingProjectChanges = EmptyMap
    /\ updateApp = Idle
    /\ updateProject = Idle
    /\ clearProjectSetting = [pk \in Projects \X ProjectEditKeys |-> 0]
    /\ resetAppSettings = "idle"
    /\ resetProjectSettings = Idle
    /\ savePc = "idle"
    /\ saveClosure = EmptyMap
    /\ editBase = <<>>
    /\ writes = 0
    /\ saveRun = "none"
    /\ resetDropped = EmptyMap
    /\ bufferProject = "none"

\* the same, the store holding an override of yoloMode for project p1
InitStored ==
    /\ HealthInit
    /\ isOpen = FALSE
    /\ projectName = "p1"
    /\ storeApp = SchemaDefault
    /\ storeProject = [p \in Projects |->
                          IF p = "p1" THEN [NoOverrides EXCEPT !["yoloMode"] = "true"]
                          ELSE NoOverrides]
    /\ appSettings = EmptyMap
    /\ projectSettings = EmptyMap
    /\ effectiveSettings = Unloaded
    /\ queryStatus = [q \in Queries |-> "idle"]
    /\ pendingAppChanges = EmptyMap
    /\ pendingProjectChanges = EmptyMap
    /\ updateApp = Idle
    /\ updateProject = Idle
    /\ clearProjectSetting = [pk \in Projects \X ProjectEditKeys |-> 0]
    /\ resetAppSettings = "idle"
    /\ resetProjectSettings = Idle
    /\ savePc = "idle"
    /\ saveClosure = EmptyMap
    /\ editBase = <<>>
    /\ writes = 0
    /\ saveRun = "none"
    /\ resetDropped = EmptyMap
    /\ bufferProject = "none"

-----------------------------------------------------------------------------
\* The modal and its queries

storeVars == <<storeApp, storeProject>>
dataVars == <<appSettings, projectSettings, effectiveSettings>>
bufferVars == <<pendingAppChanges, pendingProjectChanges>>
mutationVars == <<updateApp, updateProject, clearProjectSetting, resetAppSettings,
                  resetProjectSettings>>
saveVars == <<savePc, saveClosure>>

\* history: a close or a reset(key) while handleSave is suspended
SaveInterrupted ==
    IF saveRun \in {"running", "retry", "interrupted"} THEN "interrupted" ELSE "none"

\* history: handleSave ends with this outcome
SaveEnded(outcome) == IF saveRun \in {"running", "retry"} THEN outcome ELSE "none"

\* history: an operation other than save, made while no save is running
SaveForgotten ==
    IF saveRun \in {"running", "retry", "interrupted"} THEN saveRun ELSE "none"

\* history: the project buffer takes an entry while projectName is selected
BufferFilled ==
    IF ~hasUnsavedProjectChanges \/ bufferProject = projectName
    THEN projectName ELSE "mixed"

\* history: handleSave begins; it is a retry when the last save failed after
\* its app flush and nothing was done since
SaveBegun == IF saveRun = "failed" /\ ~hasUnsavedAppChanges THEN "retry" ELSE "running"

\* history: handleSave is suspended, and neither a close nor a reset(key)
\* has come in between
SaveUndisturbed == saveRun \in {"running", "retry"}

\* isOpen becomes true: the enabled queries fetch
Open ==
    /\ ~isOpen
    /\ isOpen' = TRUE
    /\ queryStatus' = [q \in Queries |->
                         IF q = "project" /\ projectName = NoProject
                         THEN queryStatus[q] ELSE "fetching"]
    /\ UNCHANGED <<projectName, storeVars, dataVars, bufferVars, mutationVars,
                   saveVars, editBase, writes>>
    /\ UNCHANGED <<saveRun, resetDropped>>
    /\ UNCHANGED bufferProject
    /\ UNCHANGED healthVars

\* faulty variant: closing leaves the buffers alone
Close_KeepsBuffers ==
    /\ isOpen
    /\ isOpen' = FALSE
    /\ editBase' = <<>>
    /\ saveRun' = SaveInterrupted
    /\ resetDropped' = EmptyMap
    /\ UNCHANGED <<projectName, storeVars, dataVars, queryStatus, bufferVars,
                   mutationVars, saveVars, writes>>
    /\ UNCHANGED bufferProject
    /\ UNCHANGED healthVars

\* isOpen becomes false: useEffect([isOpen]) resets both buffers
Close ==
    /\ isOpen
    /\ isOpen' = FALSE
    /\ pendingAppChanges' = EmptyMap
    /\ pendingProjectChanges' = EmptyMap
    /\ editBase' = <<>>
    /\ UNCHANGED <<projectName, storeVars, dataVars, queryStatus, mutationVars, saveVars,
                   writes>>
    /\ saveRun' = SaveInterrupted
    /\ resetDropped' = EmptyMap
    /\ bufferProject' = "none"
    /\ UNCHANGED healthVars

FetchSucceeds(q) ==
    /\ queryStatus[q] = "fetching"
    /\ queryStatus' = [queryStatus EXCEPT ![q] = "idle"]
    /\ appSettings' = IF q = "app" THEN storeApp ELSE appSettings
    /\ projectSettings' = IF q = "project" THEN ProjectOf(projectName) ELSE projectSettings
    /\ effectiveSettings' = IF q = "effective" THEN EffectiveOf(projectName)
                            ELSE effectiveSettings
    /\ UNCHANGED writes
    /\ UNCHANGED <<isOpen, projectName, storeVars, bufferVars, mutationVars, saveVars,
                   editBase>>
    /\ UNCHANGED <<saveRun, resetDropped>>
    /\ UNCHANGED bufferProject
    /\ UNCHANGED healthVars

\* a failed fetch keeps the data the query already had
FetchFails(q) ==
    /\ queryStatus[q] = "fetching"
    /\ queryStatus' = [queryStatus EXCEPT ![q] = "error"]
    /\ UNCHANGED writes
    /\ UNCHANGED <<isOpen, projectName, storeVars, dataVars, bufferVars, mutationVars,
                   saveVars, editBase>>
    /\ UNCHANGED <<saveRun, resetDropped>>
    /\ UNCHANGED bufferProject
    /\ UNCHANGED healthVars

-----------------------------------------------------------------------------
\* Edits

\* history: a buffered edit made with both buffers empty begins an editing
\* round; the effective snapshot is remembered if the modal was then at rest
BeginRound ==
    IF hasUnsavedChanges THEN editBase
    ELSE IF Quiescent THEN <<effectiveSettings>> ELSE <<>>

\* faulty variant: a UI-only edit is put into the app buffer to wait for save
AppChangeUi_Buffered(k, v) ==
    /\ AppTabShown /\ ~isSaving
    /\ k \in UI_ONLY_SETTINGS
    /\ pendingAppChanges' = Merge(pendingAppChanges, [x \in {k} |-> v])
    /\ saveRun' = "none"
    /\ UNCHANGED <<isOpen, projectName, storeVars, dataVars, queryStatus,
                   pendingProjectChanges, mutationVars, saveVars, editBase, writes,
                   resetDropped>>
    /\ UNCHANGED bufferProject
    /\ UNCHANGED healthVars

\* handleAppChange({k: v}) for a UI-only key: updateApp.mutate(uiChanges)
AppChangeUi(k, v) ==
    /\ AppTabShown /\ ~isSaving
    /\ k \in UI_ONLY_SETTINGS
    /\ updateApp' = Pending([x \in {k} |-> v], NoProject)
    /\ UNCHANGED editBase
    /\ writes < MaxWrites
    /\ writes' = writes + 1
    /\ UNCHANGED <<isOpen, projectName, storeVars, dataVars, queryStatus, bufferVars,
                   updateProject, clearProjectSetting, resetAppSettings,
                   resetProjectSettings, saveVars>>
    /\ saveRun' = "none"
    /\ UNCHANGED resetDropped
    /\ UNCHANGED bufferProject
    /\ UNCHANGED healthVars

\* faulty variant: the buffered branch does not look at isSaving
AppChangeAgent_Unguarded(k, v) ==
    /\ AppTabShown
    /\ k \notin UI_ONLY_SETTINGS
    /\ pendingAppChanges' = Merge(pendingAppChanges, [x \in {k} |-> v])
    /\ editBase' = BeginRound
    /\ saveRun' = "none"
    /\ UNCHANGED <<isOpen, projectName, storeVars, dataVars, queryStatus,
                   pendingProjectChanges, mutationVars, saveVars, writes, resetDropped>>
    /\ UNCHANGED bufferProject
    /\ UNCHANGED healthVars

\* handleAppChange({k: v}) for any other key: setPendingAppChanges
AppChangeAgent(k, v) ==
    /\ AppTabShown /\ ~isSaving
    /\ k \notin UI_ONLY_SETTINGS
    /\ pendingAppChanges' = Merge(pendingAppChanges, [x \in {k} |-> v])
    /\ editBase' = BeginRound
    /\ UNCHANGED writes
    /\ UNCHANGED <<isOpen, projectName, storeVars, dataVars, queryStatus,
                   pendingProjectChanges, mutationVars, saveVars>>
    /\ saveRun' = "none"
    /\ UNCHANGED resetDropped
    /\ UNCHANGED bufferProject
    /\ UNCHANGED healthVars

handleAppChange(k, v) == AppChangeUi(k, v) \/ AppChangeAgent(k, v)

\* faulty variant: a project edit is written to the store at once
handleProjectChange_AutoSaves(k, v) ==
    /\ ProjectTabShown
    /\ ~(isSaving \/ projectName = NoProject)
    /\ pendingProjectChanges' = Merge(pendingProjectChanges, [x \in {k} |-> v])
    /\ updateProject' = Pending([x \in {k} |-> v], projectName)
    /\ editBase' = BeginRound
    /\ saveRun' = "none"
    /\ resetDropped' = Without(resetDropped, k)
    /\ UNCHANGED <<isOpen, projectName, storeVars, dataVars, queryStatus,
                   pendingAppChanges, updateApp, clearProjectSetting, resetAppSettings,
                   resetProjectSettings, saveVars, writes>>
    /\ bufferProject' = BufferFilled
    /\ UNCHANGED healthVars

\* faulty variant: the update replaces the project buffer
handleProjectChange_Replaces(k, v) ==
    /\ ProjectTabShown
    /\ ~(isSaving \/ projectName = NoProject)
    /\ pendingProjectChanges' = [x \in {k} |-> v]
    /\ editBase' = BeginRound
    /\ saveRun' = "none"
    /\ resetDropped' = Without(resetDropped, k)
    /\ bufferProject' = BufferFilled
    /\ UNCHANGED <<isOpen, projectName, storeVars, dataVars, queryStatus,
                   pendingAppChanges, mutationVars, saveVars, writes>>
    /\ UNCHANGED healthVars

handleProjectChange(k, v) ==
    /\ ProjectTabShown
    /\ ~(isSaving \/ projectName = NoProject)
    /\ pendingProjectChanges' = Merge(pendingProjectChanges, [x \in {k} |-> v])
    /\ editBase' = BeginRound
    /\ UNCHANGED writes
    /\ UNCHANGED <<isOpen, projectName, storeVars, dataVars, queryStatus,
                   pendingAppChanges, mutationVars, saveVars>>
    /\ saveRun' = "none"
    /\ resetDropped' = Without(resetDropped, k)
    /\ bufferProject' = BufferFilled
    /\ UNCHANGED healthVars

\* faulty variant: cancel forgets the project buffer
handleCancel_KeepsProject ==
    /\ isOpen /\ hasUnsavedChanges /\ ~isSaving
    /\ pendingAppChanges' = EmptyMap
    /\ UNCHANGED <<isOpen, projectName, storeVars, dataVars, queryStatus, mutationVars,
                   saveVars, pendingProjectChanges, editBase, writes>>
    /\ saveRun' = "none"
    /\ resetDropped' = EmptyMap
    /\ UNCHANGED bufferProject
    /\ UNCHANGED healthVars

\* faulty variant: cancel forgets the app buffer
handleCancel_KeepsApp ==
    /\ isOpen /\ hasUnsavedChanges /\ ~isSaving
    /\ pendingProjectChanges' = EmptyMap
    /\ saveRun' = "none"
    /\ resetDropped' = EmptyMap
    /\ UNCHANGED <<isOpen, projectName, storeVars, dataVars, queryStatus, mutationVars,
                   saveVars, pendingAppChanges, editBase, writes>>
    /\ bufferProject' = "none"
    /\ UNCHANGED healthVars

\* Cancel button (shown with unsaved changes, disabled while saving)
handleCancel ==
    /\ isOpen /\ hasUnsavedChanges /\ ~isSaving
    /\ pendingAppChanges' = EmptyMap
    /\ pendingProjectChanges' = EmptyMap
    /\ UNCHANGED <<isOpen, projectName, storeVars, dataVars, queryStatus, mutationVars,
                   saveVars, editBase, writes>>
    /\ saveRun' = "none"
    /\ resetDropped' = EmptyMap
    /\ bufferProject' = "none"
    /\ UNCHANGED healthVars

-----------------------------------------------------------------------------
\* Save

\* faulty variant: save sends the whole app snapshot with the buffer laid over it
handleSave_SendsSnapshot ==
    /\ isOpen /\ hasUnsavedChanges /\ ~isSaving
    /\ IF hasUnsavedAppChanges
       THEN /\ updateApp' = Pending(Merge(appSettings, pendingAppChanges), NoProject)
            /\ savePc' = "app"
            /\ saveClosure' = IF hasUnsavedProjectChanges /\ projectName # NoProject
                              THEN pendingProjectChanges ELSE EmptyMap
            /\ UNCHANGED updateProject
       ELSE /\ hasUnsavedProjectChanges /\ projectName # NoProject
            /\ updateProject' = Pending(pendingProjectChanges, projectName)
            /\ savePc' = "project"
            /\ UNCHANGED <<updateApp, saveClosure>>
    /\ editBase' = <<>>
    /\ writes < MaxWrites
    /\ writes' = writes + 1
    /\ saveRun' = SaveBegun
    /\ UNCHANGED <<isOpen, projectName, storeVars, dataVars, queryStatus, bufferVars,
                   clearProjectSetting, resetAppSettings, resetProjectSettings,
                   resetDropped>>
    /\ UNCHANGED bufferProject
    /\ UNCHANGED healthVars

\* faulty variant: save writes the app scope whatever its buffer holds
handleSave_AlwaysApp ==
    /\ isOpen /\ hasUnsavedChanges /\ ~isSaving
    /\ updateApp' = Pending(pendingAppChanges, NoProject)
    /\ savePc' = "app"
    /\ saveClosure' = IF hasUnsavedProjectChanges /\ projectName # NoProject
                      THEN pendingProjectChanges ELSE EmptyMap
    /\ editBase' = <<>>
    /\ writes < MaxWrites
    /\ writes' = writes + 1
    /\ saveRun' = SaveBegun
    /\ UNCHANGED <<isOpen, projectName, storeVars, dataVars, queryStatus, bufferVars,
                   updateProject, clearProjectSetting, resetAppSettings,
                   resetProjectSettings, resetDropped>>
    /\ UNCHANGED bufferProject
    /\ UNCHANGED healthVars

\* Save button: handleSave runs up to its first await
handleSave ==
    /\ isOpen /\ hasUnsavedChanges /\ ~isSaving
    /\ IF hasUnsavedAppChanges
       THEN /\ updateApp' = Pending(pendingAppChanges, NoProject)
            /\ savePc' = "app"
            /\ saveClosure' = IF hasUnsavedProjectChanges /\ projectName # NoProject
                              THEN pendingProjectChanges ELSE EmptyMap
            /\ UNCHANGED updateProject
       ELSE /\ hasUnsavedProjectChanges /\ projectName # NoProject
            /\ updateProject' = Pending(pendingProjectChanges, projectName)
            /\ savePc' = "project"
            /\ UNCHANGED <<updateApp, saveClosure>>
    /\ editBase' = <<>>
    /\ writes < MaxWrites
    /\ writes' = writes + 1
    /\ UNCHANGED <<isOpen, projectName, storeVars, dataVars, queryStatus, bufferVars,
                   clearProjectSetting, resetAppSettings, resetProjectSettings>>
    /\ saveRun' = SaveBegun
    /\ UNCHANGED resetDropped
    /\ UNCHANGED bufferProject
    /\ UNCHANGED healthVars

\* faulty variant: handleSave goes on without setPendingAppChanges({})
UpdateAppSucceeds_KeepsBuffer ==
    /\ updateApp.status = "pending"
    /\ storeApp' = Merge(storeApp, updateApp.variables)
    /\ updateApp' = Settled("success")
    /\ queryStatus' = Invalidate({"app", "effective"})
    /\ IF savePc = "app" /\ DOMAIN saveClosure # {}
       THEN /\ updateProject' = Pending(saveClosure, projectName)
            /\ savePc' = "project"
       ELSE /\ savePc' = "idle"
            /\ UNCHANGED updateProject
    /\ saveClosure' = EmptyMap
    /\ saveRun' = IF savePc = "app" /\ DOMAIN saveClosure = {}
                  THEN SaveEnded("done") ELSE saveRun
    /\ UNCHANGED <<isOpen, projectName, storeProject, dataVars, bufferVars,
                   clearProjectSetting, resetAppSettings, resetProjectSettings, editBase,
                   writes, resetDropped>>
    /\ UNCHANGED bufferProject
    /\ UNCHANGED healthVars

\* updateApp resolves: onSuccess invalidates; a suspended handleSave clears
\* the app buffer and goes on to the project flush
UpdateAppSucceeds ==
    /\ updateApp.status = "pending"
    /\ storeApp' = Merge(storeApp, updateApp.variables)
    /\ updateApp' = Settled("success")
    /\ queryStatus' = Invalidate({"app", "effective"})
    /\ IF savePc = "app"
       THEN /\ pendingAppChanges' = EmptyMap
            /\ IF DOMAIN saveClosure # {}
               THEN /\ updateProject' = Pending(saveClosure, projectName)
                    /\ savePc' = "project"
               ELSE /\ savePc' = "idle"
                    /\ UNCHANGED updateProject
            /\ saveClosure' = EmptyMap
       ELSE UNCHANGED <<pendingAppChanges, updateProject, saveVars>>
    /\ UNCHANGED writes
    /\ UNCHANGED <<isOpen, projectName, storeProject, dataVars, pendingProjectChanges,
                   clearProjectSetting, resetAppSettings, resetProjectSettings, editBase>>
    /\ saveRun' = IF savePc = "app" /\ DOMAIN saveClosure = {}
                  THEN SaveEnded("done") ELSE saveRun
    /\ UNCHANGED resetDropped
    /\ UNCHANGED bufferProject
    /\ UNCHANGED healthVars

\* faulty variant: a rejected app flush still empties the app buffer
UpdateAppFails_DropsBuffer ==
    /\ updateApp.status = "pending"
    /\ updateApp' = Settled("error")
    /\ savePc' = "idle"
    /\ saveClosure' = EmptyMap
    /\ pendingAppChanges' = IF savePc = "app" THEN EmptyMap ELSE pendingAppChanges
    /\ saveRun' = IF savePc = "app" THEN SaveEnded("failed") ELSE saveRun
    /\ UNCHANGED <<isOpen, projectName, storeVars, dataVars, queryStatus,
                   pendingProjectChanges, updateProject, clearProjectSetting,
                   resetAppSettings, resetProjectSettings, editBase, writes,
                   resetDropped>>
    /\ UNCHANGED bufferProject
    /\ UNCHANGED healthVars

\* faulty variant: handleSave catches the rejection and goes on to the
\* project flush
UpdateAppFails_GoesOn ==
    /\ updateApp.status = "pending"
    /\ updateApp' = Settled("error")
    /\ IF savePc = "app" /\ DOMAIN saveClosure # {}
       THEN /\ updateProject' = Pending(saveClosure, projectName)
            /\ savePc' = "project"
            /\ UNCHANGED saveRun
       ELSE /\ savePc' = "idle"
            /\ saveRun' = IF savePc = "app" THEN SaveEnded("failed") ELSE saveRun
            /\ UNCHANGED updateProject
    /\ saveClosure' = EmptyMap
    /\ UNCHANGED <<isOpen, projectName, storeVars, dataVars, queryStatus, bufferVars,
                   clearProjectSetting, resetAppSettings, resetProjectSettings, editBase,
                   writes, resetDropped>>
    /\ UNCHANGED bufferProject
    /\ UNCHANGED healthVars

\* updateApp rejects: mutateAsync throws and handleSave ends there
UpdateAppFails ==
    /\ updateApp.status = "pending"
    /\ updateApp' = Settled("error")
    /\ savePc' = "idle"
    /\ saveClosure' = EmptyMap
    /\ UNCHANGED writes
    /\ UNCHANGED <<isOpen, projectName, storeVars, dataVars, queryStatus, bufferVars,
                   updateProject, clearProjectSetting, resetAppSettings,
                   resetProjectSettings, editBase>>
    /\ saveRun' = IF savePc = "app" THEN SaveEnded("failed") ELSE saveRun
    /\ UNCHANGED resetDropped
    /\ UNCHANGED bufferProject
    /\ UNCHANGED healthVars

\* faulty variant: handleSave ends without setPendingProjectChanges({})
UpdateProjectSucceeds_KeepsBuffer ==
    /\ updateProject.status = "pending"
    /\ storeProject' = [storeProject EXCEPT ![updateProject.project] =
                            Merge(@, updateProject.variables)]
    /\ updateProject' = Settled("success")
    /\ queryStatus' = Invalidate({"project", "effective"})
    /\ savePc' = "idle"
    /\ saveRun' = SaveEnded("done")
    /\ UNCHANGED <<isOpen, projectName, storeApp, dataVars, bufferVars, updateApp,
                   clearProjectSetting, resetAppSettings, resetProjectSettings,
                   saveClosure, editBase, writes, resetDropped, bufferProject>>
    /\ UNCHANGED healthVars

UpdateProjectSucceeds ==
    /\ updateProject.status = "pending"
    /\ storeProject' = [storeProject EXCEPT ![updateProject.project] =
                            Merge(@, updateProject.variables)]
    /\ updateProject' = Settled("success")
    /\ queryStatus' = Invalidate({"project", "effective"})
    /\ pendingProjectChanges' = EmptyMap
    /\ savePc' = "idle"
    /\ UNCHANGED writes
    /\ UNCHANGED <<isOpen, projectName, storeApp, dataVars, pendingAppChanges, updateApp,
                   clearProjectSetting, resetAppSettings, resetProjectSettings,
                   saveClosure, editBase>>
    /\ saveRun' = SaveEnded("done")
    /\ UNCHANGED resetDropped
    /\ bufferProject' = "none"
    /\ UNCHANGED healthVars

\* faulty variant: the project buffer is cleared in a finally block
UpdateProjectFails_DropsBuffer ==
    /\ updateProject.status = "pending"
    /\ updateProject' = Settled("error")
    /\ savePc' = "idle"
    /\ pendingProjectChanges' = EmptyMap
    /\ UNCHANGED <<isOpen, projectName, storeVars, dataVars, queryStatus,
                   pendingAppChanges, updateApp, clearProjectSetting, resetAppSettings,
                   resetProjectSettings, saveClosure, editBase, writes>>
    /\ saveRun' = SaveEnded("failed")
    /\ UNCHANGED resetDropped
    /\ bufferProject' = "none"
    /\ UNCHANGED healthVars

UpdateProjectFails ==
    /\ updateProject.status = "pending"
    /\ updateProject' = Settled("error")
    /\ savePc' = "idle"
    /\ UNCHANGED writes
    /\ UNCHANGED <<isOpen, projectName, storeVars, dataVars, queryStatus, bufferVars,
                   updateApp, clearProjectSetting, resetAppSettings,
                   resetProjectSettings, saveClosure, editBase>>
    /\ saveRun' = SaveEnded("failed")
    /\ UNCHANGED resetDropped
    /\ UNCHANGED bufferProject
    /\ UNCHANGED healthVars

-----------------------------------------------------------------------------
\* Resets

\* the per-key reset button of a SettingRow: onReset && source === 'project'
ResetShown(k) ==
    /\ ProjectTabShown
    /\ projectSettings[k] # Null
    /\ getSource(k) = "project"

\* faulty variant: reset(key) empties the whole project buffer
handleResetProjectSetting_ClearsBuffer(k) ==
    /\ ResetShown(k)
    /\ InFlightClears < MaxClears
    /\ pendingProjectChanges' = EmptyMap
    /\ clearProjectSetting' =
           [clearProjectSetting EXCEPT ![<<projectName, k>>] = @ + 1]
    /\ editBase' = <<>>
    /\ writes < MaxWrites
    /\ writes' = writes + 1
    /\ saveRun' = SaveInterrupted
    /\ UNCHANGED <<isOpen, projectName, storeVars, dataVars, queryStatus,
                   pendingAppChanges, updateApp, updateProject, resetAppSettings,
                   resetProjectSettings, saveVars, resetDropped>>
    /\ bufferProject' = "none"
    /\ UNCHANGED healthVars

handleResetProjectSetting(k) ==
    /\ ResetShown(k)
    /\ InFlightClears < MaxClears
    /\ pendingProjectChanges' = Without(pendingProjectChanges, k)
    /\ clearProjectSetting' =
           [clearProjectSetting EXCEPT ![<<projectName, k>>] = @ + 1]
    /\ editBase' = <<>>
    /\ writes < MaxWrites
    /\ writes' = writes + 1
    /\ UNCHANGED <<isOpen, projectName, storeVars, dataVars, queryStatus,
                   pendingAppChanges, updateApp, updateProject, resetAppSettings,
                   resetProjectSettings, saveVars>>
    /\ saveRun' = SaveInterrupted
    /\ resetDropped' = IF k \in DOMAIN pendingProjectChanges
                       THEN Merge(resetDropped, [x \in {k} |-> pendingProjectChanges[k]])
                       ELSE resetDropped
    /\ bufferProject' = IF DOMAIN pendingProjectChanges \subseteq {k}
                        THEN "none" ELSE bufferProject
    /\ UNCHANGED healthVars

ClearSucceeds(p, k) ==
    /\ clearProjectSetting[<<p, k>>] > 0
    /\ clearProjectSetting' = [clearProjectSetting EXCEPT ![<<p, k>>] = @ - 1]
    /\ storeProject' = [storeProject EXCEPT ![p][k] = Null]
    /\ queryStatus' = Invalidate({"project", "effective"})
    /\ UNCHANGED writes
    /\ UNCHANGED <<isOpen, projectName, storeApp, dataVars, bufferVars, updateApp,
                   updateProject, resetAppSettings, resetProjectSettings, saveVars,
                   editBase>>
    /\ resetDropped' = Without(resetDropped, k)
    /\ UNCHANGED saveRun
    /\ UNCHANGED bufferProject
    /\ UNCHANGED healthVars

ClearFails(p, k) ==
    /\ clearProjectSetting[<<p, k>>] > 0
    /\ clearProjectSetting' = [clearProjectSetting EXCEPT ![<<p, k>>] = @ - 1]
    /\ UNCHANGED writes
    /\ UNCHANGED <<isOpen, projectName, storeVars, dataVars, queryStatus, bufferVars,
                   updateApp, updateProject, resetAppSettings, resetProjectSettings,
                   saveVars, editBase>>
    /\ resetDropped' = Without(resetDropped, k)
    /\ UNCHANGED saveRun
    /\ UNCHANGED bufferProject
    /\ UNCHANGED healthVars

\* "Reset All to Defaults": resetAppSettings.mutate()
ResetAllApp ==
    /\ AppTabShown
    /\ resetAppSettings # "pending"
    /\ resetAppSettings' = "pending"
    /\ editBase' = <<>>
    /\ writes < MaxWrites
    /\ writes' = writes + 1
    /\ UNCHANGED <<isOpen, projectName, storeVars, dataVars, queryStatus, bufferVars,
                   updateApp, updateProject, clearProjectSetting, resetProjectSettings,
                   saveVars>>
    /\ saveRun' = SaveForgotten
    /\ UNCHANGED resetDropped
    /\ UNCHANGED bufferProject
    /\ UNCHANGED healthVars

ResetAppSucceeds ==
    /\ resetAppSettings = "pending"
    /\ resetAppSettings' = "idle"
    /\ storeApp' = SchemaDefault
    /\ queryStatus' = Invalidate({"app", "effective"})
    /\ UNCHANGED writes
    /\ UNCHANGED <<isOpen, projectName, storeProject, dataVars, bufferVars, updateApp,
                   updateProject, clearProjectSetting, resetProjectSettings, saveVars,
                   editBase>>
    /\ UNCHANGED <<saveRun, resetDropped>>
    /\ UNCHANGED bufferProject
    /\ UNCHANGED healthVars

ResetAppFails ==
    /\ resetAppSettings = "pending"
    /\ resetAppSettings' = "idle"
    /\ UNCHANGED writes
    /\ UNCHANGED <<isOpen, projectName, storeVars, dataVars, queryStatus, bufferVars,
                   updateApp, updateProject, clearProjectSetting, resetProjectSettings,
                   saveVars, editBase>>
    /\ UNCHANGED <<saveRun, resetDropped>>
    /\ UNCHANGED bufferProject
    /\ UNCHANGED healthVars

\* "Clear All Project Overrides": resetProjectSettings.mutate()
ResetAllProject ==
    /\ ProjectTabShown
    /\ resetProjectSettings.status # "pending"
    /\ resetProjectSettings' = Pending(EmptyMap, projectName)
    /\ editBase' = <<>>
    /\ writes < MaxWrites
    /\ writes' = writes + 1
    /\ UNCHANGED <<isOpen, projectName, storeVars, dataVars, queryStatus, bufferVars,
                   updateApp, updateProject, clearProjectSetting, resetAppSettings,
                   saveVars>>
    /\ saveRun' = SaveForgotten
    /\ UNCHANGED resetDropped
    /\ UNCHANGED bufferProject
    /\ UNCHANGED healthVars

ResetProjectSucceeds ==
    /\ resetProjectSettings.status = "pending"
    /\ resetProjectSettings' = Idle
    /\ storeProject' = [storeProject EXCEPT ![resetProjectSettings.project] = NoOverrides]
    /\ queryStatus' = Invalidate({"project", "effective"})
    /\ UNCHANGED writes
    /\ UNCHANGED <<isOpen, projectName, storeApp, dataVars, bufferVars, updateApp,
                   updateProject, clearProjectSetting, resetAppSettings, saveVars,
                   editBase>>
    /\ UNCHANGED <<saveRun, resetDropped>>
    /\ UNCHANGED bufferProject
    /\ UNCHANGED healthVars

ResetProjectFails ==
    /\ resetProjectSettings.status = "pending"
    /\ resetProjectSettings' = Idle
    /\ UNCHANGED writes
    /\ UNCHANGED <<isOpen, projectName, storeVars, dataVars, queryStatus, bufferVars,
                   updateApp, updateProject, clearProjectSetting, resetAppSettings,
                   saveVars, editBase>>
    /\ UNCHANGED <<saveRun, resetDropped>>
    /\ UNCHANGED bufferProject
    /\ UNCHANGED healthVars

-----------------------------------------------------------------------------
\* every step but the buffered edits of the app tab
NextShared ==
    \/ Open
    \/ Close
    \/ \E q \in Queries : FetchSucceeds(q)
    \/ \E k \in AppEditKeys, v \in Val : AppChangeUi(k, v)
    \/ \E k \in ProjectEditKeys, v \in Val : handleProjectChange(k, v)
    \/ handleCancel
    \/ handleSave
    \/ UpdateAppSucceeds
    \/ UpdateAppFails
    \/ UpdateProjectSucceeds
    \/ UpdateProjectFails
    \/ \E k \in ProjectEditKeys : handleResetProjectSetting(k)
    \/ \E p \in Projects, k \in ProjectEditKeys : ClearSucceeds(p, k)
    \/ \E p \in Projects, k \in ProjectEditKeys : ClearFails(p, k)
    \/ ResetAllApp
    \/ ResetAppSucceeds
    \/ ResetAppFails
    \/ ResetAllProject
    \/ ResetProjectSucceeds
    \/ ResetProjectFails

Next ==
    \/ NextShared
    \/ \E k \in AppEditKeys, v \in Val : AppChangeAgent(k, v)

Spec == Init /\ [][Next]_vars

\* every issued updateApp and updateProject call settles: the promise of
\* mutateAsync resolves or rejects
SettleApp == UpdateAppSucceeds \/ UpdateAppFails
SettleProject == UpdateProjectSucceeds \/ UpdateProjectFails
SpecLive == Init /\ [][Next]_vars /\ WF_vars(SettleApp) /\ WF_vars(SettleProject)

\* the projectName prop changes: the project and effective queries have new
\* keys, so their data is undefined until the fetches of the new keys land
SwitchProject(p) ==
    /\ p # projectName
    /\ projectName' = p
    /\ projectSettings' = EmptyMap
    /\ effectiveSettings' = Unloaded
    /\ queryStatus' = [q \in Queries |->
                         IF q \in {"project", "effective"} /\ isOpen
                         THEN "fetching" ELSE queryStatus[q]]
    /\ editBase' = <<>>
    /\ saveRun' = SaveInterrupted
    /\ resetDropped' = EmptyMap
    /\ UNCHANGED <<isOpen, storeVars, appSettings, bufferVars, mutationVars, saveVars,
                   writes, bufferProject>>
    /\ UNCHANGED healthVars

\* the project tab, with a projectName that can change
NextSwitch == NextShared \/ \E p \in Projects : SwitchProject(p)

SpecSwitch == Init /\ [][NextSwitch]_vars

\* the modal over a store that already holds a project override
SpecStored == InitStored /\ [][Next]_vars

\* fetches that can fail, the project tab being the one edited
NextFetch == NextShared \/ \E q \in Queries : FetchFails(q)

SpecFetch == Init /\ [][NextFetch]_vars

\* the app tab with its Auto Commit switch as the buffered control
NextAutoCommit ==
    \/ NextShared
    \/ \E v \in Val : AppChangeAgent("autoCommit", v)

SpecAutoCommit == Init /\ [][NextAutoCommit]_vars

-----------------------------------------------------------------------------
\* useServerHealth and ServerStatusBanner

MAX_FAILURES_BEFORE_WARNING == 3

\* the callers of checkHealth: the effect with its interval, and retryNow
Callers == {"interval", "retry"}

\* showWarning: state.consecutiveFailures >= MAX_FAILURES_BEFORE_WARNING
showWarning == consecutiveFailures >= MAX_FAILURES_BEFORE_WARNING

\* what ServerStatusBanner renders
ServerStatusBanner ==
    IF isRecovering THEN "restored"
    ELSE IF ~showWarning THEN "nothing"
    ELSE "warning"

\* checkHealth up to its await: the fetch is under way
checkHealth(c) ==
    /\ checksInFlight[c] < MaxInFlight
    /\ checksInFlight' = [checksInFlight EXCEPT ![c] = @ + 1]

\* useEffect: the initial check, then setInterval
Mount ==
    /\ checkIntervalRef = "null"
    /\ checkIntervalRef' = "timer"
    /\ checkHealth("interval")
    /\ UNCHANGED <<isHealthy, lastCheck, consecutiveFailures, isRecovering, lastResult>>
    /\ UNCHANGED settingsVars

\* the interval fires
IntervalTick ==
    /\ checkIntervalRef = "timer"
    /\ checkHealth("interval")
    /\ UNCHANGED <<isHealthy, lastCheck, consecutiveFailures, isRecovering,
                   checkIntervalRef, lastResult>>
    /\ UNCHANGED settingsVars

\* retryNow: an immediate check
retryNow ==
    /\ checkHealth("retry")
    /\ UNCHANGED <<isHealthy, lastCheck, consecutiveFailures, isRecovering,
                   checkIntervalRef, lastResult>>
    /\ UNCHANGED settingsVars

\* faulty variant: a successful check keeps the count of failures
HealthCheckOk_KeepsCount(c) ==
    /\ checksInFlight[c] > 0
    /\ checksInFlight' = [checksInFlight EXCEPT ![c] = @ - 1]
    /\ isHealthy' = TRUE
    /\ lastCheck' = "date"
    /\ consecutiveFailures' = consecutiveFailures
    /\ isRecovering' = (consecutiveFailures >= MAX_FAILURES_BEFORE_WARNING)
    /\ lastResult' = [outcome |-> "ok", failuresBefore |-> consecutiveFailures]
    /\ UNCHANGED checkIntervalRef
    /\ UNCHANGED settingsVars

\* response.ok: setState(prev => ...)
HealthCheckOk(c) ==
    /\ checksInFlight[c] > 0
    /\ checksInFlight' = [checksInFlight EXCEPT ![c] = @ - 1]
    /\ isHealthy' = TRUE
    /\ lastCheck' = "date"
    /\ consecutiveFailures' = 0
    /\ isRecovering' = (consecutiveFailures >= MAX_FAILURES_BEFORE_WARNING)
    /\ lastResult' = [outcome |-> "ok", failuresBefore |-> consecutiveFailures]
    /\ UNCHANGED checkIntervalRef
    /\ UNCHANGED settingsVars

\* faulty variant: a failed check leaves isRecovering as it was
HealthCheckFailed_KeepsRecovering(c) ==
    /\ checksInFlight[c] > 0
    /\ consecutiveFailures < MaxFailures
    /\ checksInFlight' = [checksInFlight EXCEPT ![c] = @ - 1]
    /\ isHealthy' = (consecutiveFailures < MAX_FAILURES_BEFORE_WARNING - 1)
    /\ lastCheck' = "date"
    /\ consecutiveFailures' = consecutiveFailures + 1
    /\ lastResult' = [outcome |-> "failed", failuresBefore |-> consecutiveFailures]
    /\ UNCHANGED <<isRecovering, checkIntervalRef>>
    /\ UNCHANGED settingsVars

\* faulty variant: isHealthy is computed from the count before the failure
HealthCheckFailed_OffByOne(c) ==
    /\ checksInFlight[c] > 0
    /\ consecutiveFailures < MaxFailures
    /\ checksInFlight' = [checksInFlight EXCEPT ![c] = @ - 1]
    /\ isHealthy' = (consecutiveFailures < MAX_FAILURES_BEFORE_WARNING)
    /\ lastCheck' = "date"
    /\ consecutiveFailures' = consecutiveFailures + 1
    /\ isRecovering' = FALSE
    /\ lastResult' = [outcome |-> "failed", failuresBefore |-> consecutiveFailures]
    /\ UNCHANGED checkIntervalRef
    /\ UNCHANGED settingsVars

\* the response is not ok, the fetch rejects or its timeout aborts it:
\* setState(prev => ...) of the catch block
HealthCheckFailed(c) ==
    /\ checksInFlight[c] > 0
    /\ consecutiveFailures < MaxFailures
    /\ checksInFlight' = [checksInFlight EXCEPT ![c] = @ - 1]
    /\ isHealthy' = (consecutiveFailures < MAX_FAILURES_BEFORE_WARNING - 1)
    /\ lastCheck' = "date"
    /\ consecutiveFailures' = consecutiveFailures + 1
    /\ isRecovering' = FALSE
    /\ lastResult' = [outcome |-> "failed", failuresBefore |-> consecutiveFailures]
    /\ UNCHANGED checkIntervalRef
    /\ UNCHANGED settingsVars

NextHealth ==
    \/ Mount
    \/ IntervalTick
    \/ retryNow
    \/ \E c \in Callers : HealthCheckOk(c)
    \/ \E c \in Callers : HealthCheckFailed(c)

SpecHealth == Init /\ [][NextHealth]_vars

-----------------------------------------------------------------------------
\* Claims

\* the resolver's answer on the last-fetched app and project snapshots
Resolved(k) ==
    [value |-> Resolve(appSettings, projectSettings, k).value,
     source |-> Resolve(appSettings, projectSettings, k).source,
     isDirty |-> FALSE]

\* C1: after a project-scope edit sets key k to value v (the effective
\* snapshot being loaded), and before any save, the effective view of k has
\* value v, source 'project' and isDirty = TRUE.
C1_ProjectEditShownAsProject ==
    [][\A k \in ProjectEditKeys, v \in Val :
          (handleProjectChange(k, v) /\ DOMAIN effectiveSettings.sources # {}) =>
              View(k)' = [value |-> v, source |-> "project", isDirty |-> TRUE]]_vars

BaseView(k) ==
    [value |-> editBase[1].settings[k], source |-> editBase[1].sources[k],
     isDirty |-> FALSE]

\* C3 (as stated): edits followed by cancel restore the effective view of
\* every key to the view that held before the first edit.
C3_CancelRestoresEveryKey ==
    [][(handleCancel /\ editBase # <<>>) =>
          \A k \in Keys : View(k)' = BaseView(k)]_vars

\* the UI-only keys as the specification lists them
UiOnlyKeys ==
    {"showDebugPanel", "celebrateOnComplete", "theme", "darkMode",
     "debugPanelHeight", "kanbanColumns"}

\* C3 (amended): edits begun with the snapshots loaded and nothing in flight,
\* followed by cancel, restore the effective view of every key that is not
\* UI-only; cancel empties both buffers and writes nothing.
C3_CancelRestoresBufferedKeys ==
    [][(handleCancel /\ editBase # <<>>) =>
          /\ \A k \in Keys \ UiOnlyKeys : View(k)' = BaseView(k)
          /\ ~hasUnsavedChanges'
          /\ UNCHANGED <<storeVars, mutationVars>>]_vars

\* C3 witness: an editing round that began at rest has been cancelled.
C3_Witness ==
    /\ editBase # <<>>
    /\ ~hasUnsavedChanges
    /\ isOpen

\* C4: neither buffer ever holds a UI-only key, and an edit of a UI-only key
\* changes neither buffer, so hasUnsavedChanges stays as it was.
NoUiOnlyKeyBuffered ==
    /\ (DOMAIN pendingAppChanges) \cap UiOnlyKeys = {}
    /\ (DOMAIN pendingProjectChanges) \cap UiOnlyKeys = {}

C4_UiOnlyNeverBuffered ==
    /\ NoUiOnlyKeyBuffered
    /\ [][/\ NoUiOnlyKeyBuffered'
          /\ \A k \in UiOnlyKeys, v \in Val :
                handleAppChange(k, v) =>
                    /\ UNCHANGED bufferVars
                    /\ hasUnsavedChanges' = hasUnsavedChanges]_vars

\* C4 witness: a showDebugPanel edit is being applied and nothing is unsaved.
C4_Witness ==
    /\ updateApp.status = "pending"
    /\ DOMAIN updateApp.variables = {"showDebugPanel"}
    /\ savePc = "idle"
    /\ ~hasUnsavedChanges

\* C5: with empty buffers (and the app and project snapshots loaded, so that
\* the settings are on screen) the view of every key is the resolver's answer
\* on the app and project settings: 'project' iff the project settings hold an
\* entry, otherwise 'app' iff the app settings define the key, otherwise
\* 'default', with the value of the map so named.
C5_ViewIsResolved ==
    (~hasUnsavedChanges /\ AppTabShown /\ ProjectTabShown) =>
        \A k \in Keys : View(k) = Resolved(k)

\* all three snapshots are loaded and no fetch is outstanding
AllLoadedAndIdle ==
    /\ DOMAIN appSettings # {} /\ DOMAIN projectSettings # {}
    /\ DOMAIN effectiveSettings.settings # {}
    /\ \A q \in Queries : queryStatus[q] = "idle"

\* C6: when the last flush of a save succeeds (the snapshots being loaded and
\* no fetch outstanding), both buffers are empty and the view of each saved
\* project key is {saved value, 'project', not dirty}: it never shows the
\* pre-edit value.
C6_SavedKeysShownAtOnce ==
    [][(UpdateProjectSucceeds /\ AllLoadedAndIdle) =>
          /\ ~hasUnsavedChanges'
          /\ \A k \in DOMAIN updateProject.variables :
                View(k)' = [value |-> updateProject.variables[k],
                            source |-> "project", isDirty |-> FALSE]]_vars

\* store writes in flight, per scope
InFlightApp ==
    (IF updateApp.status = "pending" THEN 1 ELSE 0)
    + (IF resetAppSettings = "pending" THEN 1 ELSE 0)

InFlightProject ==
    (IF updateProject.status = "pending" THEN 1 ELSE 0)
    + (IF resetProjectSettings.status = "pending" THEN 1 ELSE 0)
    + InFlightClears

\* C7: at most one store write per scope is in flight at any time.
C7_OneWritePerScope == InFlightApp <= 1 /\ InFlightProject <= 1

\* C8: resetAll of a scope leaves that scope's pending buffer empty.
C8_ResetAllClearsBuffer ==
    [][/\ ResetAllApp => pendingAppChanges' = EmptyMap
       /\ ResetAllProject => pendingProjectChanges' = EmptyMap]_vars

\* C9: reset(key) removes key from the project buffer and issues the delete;
\* once the delete has succeeded the view of key shows the inherited app
\* value and a source other than 'project'.
C9_ResetShowsInherited ==
    [][/\ \A k \in ProjectEditKeys :
             handleResetProjectSetting(k) =>
                 /\ k \notin DOMAIN pendingProjectChanges'
                 /\ clearProjectSetting'[<<projectName, k>>] =
                        clearProjectSetting[<<projectName, k>>] + 1
       /\ \A k \in ProjectEditKeys :
             (ClearSucceeds(projectName, k) /\ ~isDirty(k)) =>
                 /\ getSource(k)' \in {"app", "default"}
                 /\ getEffective(k)' = storeApp[k]]_vars

\* C10: every buffered value differs from the last-fetched snapshot value of
\* its key in that scope.
C10_BufferedDiffersFromSnapshot ==
    /\ \A k \in DOMAIN pendingAppChanges :
          k \in DOMAIN appSettings => pendingAppChanges[k] # appSettings[k]
    /\ \A k \in DOMAIN pendingProjectChanges :
          k \in DOMAIN projectSettings =>
              pendingProjectChanges[k] # projectSettings[k]

\* C11: a key held by both buffers is shown with the value of the project
\* buffer.
C11_ProjectBufferFirst ==
    \A k \in (DOMAIN pendingProjectChanges) \cap (DOMAIN pendingAppChanges) :
        getEffective(k) = pendingProjectChanges[k]

\* C12: with the three snapshots on screen, a key held by the app buffer and
\* not by the project buffer is shown as {app-buffered value, 'app', dirty};
\* a key held by neither buffer is shown as the resolver's answer on the
\* last-fetched snapshots, not dirty.
C12_AppBufferShownAsApp ==
    (AppTabShown /\ ProjectTabShown /\ DOMAIN effectiveSettings.sources # {}) =>
        \A k \in Keys :
            /\ (k \in DOMAIN pendingAppChanges /\ k \notin DOMAIN pendingProjectChanges) =>
                   View(k) = [value |-> pendingAppChanges[k], source |-> "app",
                              isDirty |-> TRUE]
            /\ (k \notin DOMAIN pendingAppChanges /\ k \notin DOMAIN pendingProjectChanges) =>
                   View(k) = Resolved(k)

\* the value the app tab control of k shows: yoloMode goes through
\* getAppValue, the other switches read appSettings
AppDisplayed(k) == IF k = "yoloMode" THEN getAppValue(k) ELSE appSettings[k]

\* the value the project tab control of k shows
ProjectDisplayed(k) == getEffective(k)

\* C13: whenever a buffer holds a value for a key, the control of that key
\* on the tab of that scope displays the buffered value.
C13_BufferedValueDisplayed ==
    /\ AppTabShown =>
          \A k \in DOMAIN pendingAppChanges : AppDisplayed(k) = pendingAppChanges[k]
    /\ ProjectTabShown =>
          \A k \in DOMAIN pendingProjectChanges :
              ProjectDisplayed(k) = pendingProjectChanges[k]

\* C14: closing the modal while a save is in flight leaves the in-flight
\* write and both buffers as they are.
C14_CloseDuringSaveKeepsBuffers ==
    [][(Close /\ savePc # "idle") => UNCHANGED <<mutationVars, bufferVars>>]_vars

\* C15: when the effective-settings fetch has failed and no snapshot is held,
\* the view shown on the project tab reports every key as unavailable: no
\* key is given a source, 'default' least of all.
C15_UnavailableWithoutSnapshot ==
    (ProjectTabShown /\ queryStatus["effective"] = "error"
        /\ DOMAIN effectiveSettings.settings = {}) =>
        \A k \in Keys : View(k).source = "unavailable"

\* C16: a reset whose delete fails changes nothing: the store keeps the
\* override, and the buffer entry the reset had removed is in the buffer
\* again with its value.
C16_FailedResetChangesNothing ==
    [][\A p \in Projects, k \in ProjectEditKeys :
          ClearFails(p, k) =>
              /\ storeProject' = storeProject
              /\ k \in DOMAIN resetDropped =>
                    /\ k \in DOMAIN pendingProjectChanges'
                    /\ pendingProjectChanges'[k] = resetDropped[k]]_vars

C18_SaveWithNothingPendingWritesNothing ==
    /\ ~hasUnsavedChanges => ~ENABLED handleSave
    /\ saveRun = "done" => ~hasUnsavedChanges

\* C18 witness: a save has gone through in full, the modal is open, nothing
\* is in flight, and a further write would be within the bound.
C18_Witness ==
    /\ saveRun = "done"
    /\ isOpen /\ ~isSaving
    /\ writes < MaxWrites

\* C19: cancel empties both buffers and issues no write: the store and every
\* mutation are as they were, and hasUnsavedChanges is false afterwards.
C19_CancelEmptiesBuffersWritesNothing ==
    [][handleCancel =>
          /\ pendingAppChanges' = EmptyMap
          /\ pendingProjectChanges' = EmptyMap
          /\ UNCHANGED <<storeVars, mutationVars, saveVars, writes>>
          /\ ~hasUnsavedChanges']_vars

\* C19 witness: an editing round was cancelled before any write was started.
C19_Witness ==
    /\ editBase # <<>>
    /\ ~hasUnsavedChanges
    /\ writes = 0
    /\ storeApp = SchemaDefault

C21_ResetWithoutOverrideIsNoOp ==
    [][\A k \in ProjectEditKeys :
          /\ (handleResetProjectSetting(k)
                /\ storeProject[projectName][k] = Null
                /\ k \notin DOMAIN pendingProjectChanges) =>
                 /\ UNCHANGED <<bufferVars, storeVars>>
                 /\ \A j \in Keys : View(j)' = View(j)
          /\ \A p \in Projects :
                (ClearSucceeds(p, k) /\ storeProject[p][k] = Null) =>
                    /\ UNCHANGED <<bufferVars, storeVars>>
                    /\ \A j \in Keys : View(j)' = View(j)
                    /\ clearProjectSetting'[<<p, k>>] = clearProjectSetting[<<p, k>>] - 1]_vars

\* C21 witness: the override of yoloMode is gone from the store, the modal
\* still shows it, and a further delete of it is in flight.
C21_Witness ==
    /\ storeProject["p1"]["yoloMode"] = Null
    /\ projectSettings # EmptyMap /\ projectSettings["yoloMode"] # Null
    /\ clearProjectSetting[<<"p1", "yoloMode">>] = 1
    /\ writes = 2

\* C22: hasUnsavedChanges is true exactly when the two buffers hold more
\* than zero entries between them.
C22_HasUnsavedIffEntries ==
    hasUnsavedChanges <=>
        (Cardinality(DOMAIN pendingAppChanges)
            + Cardinality(DOMAIN pendingProjectChanges) > 0)

\* C22 witness: only the project buffer holds an entry.
C22_Witness ==
    /\ pendingAppChanges = EmptyMap
    /\ DOMAIN pendingProjectChanges = {"autoCommit"}
    /\ isOpen

\* C23: no step that changes the store or a mutation is a buffered edit, a
\* cancel, an opening, a closing or a fetch; a write is started only by an
\* immediate apply, save (or its continuation), reset(key) or resetAll; and
\* the store changes only while a write is in flight.
C23_WritesOnlyFromWriteOperations ==
    [][/\ (storeVars' # storeVars \/ mutationVars' # mutationVars) =>
              ~(\/ \E k \in Keys, v \in Val :
                      AppChangeAgent(k, v) \/ handleProjectChange(k, v)
                \/ handleCancel \/ Open \/ Close
                \/ \E q \in Queries : FetchSucceeds(q))
       /\ (mutationVars' # mutationVars /\ InFlightApp' > InFlightApp) =>
              \/ \E k \in Keys, v \in Val : AppChangeUi(k, v)
              \/ handleSave
              \/ ResetAllApp
       /\ (mutationVars' # mutationVars /\ InFlightProject' > InFlightProject) =>
              \/ handleSave
              \/ UpdateAppSucceeds /\ savePc = "app"
              \/ \E k \in ProjectEditKeys : handleResetProjectSetting(k)
              \/ ResetAllProject
       /\ storeVars' # storeVars => InFlightApp + InFlightProject > 0]_vars

\* C23 witness: both buffers hold edits, and no write was ever started.
C23_Witness ==
    /\ hasUnsavedAppChanges /\ hasUnsavedProjectChanges
    /\ writes = 0
    /\ InFlightApp + InFlightProject = 0
    /\ storeApp = SchemaDefault

\* C24: save hands each scope's write exactly the entries of that scope's
\* buffer; a flush that succeeds leaves every flushed key with its buffered
\* value in the store and every other key, and the other scope, as stored.
C24_FlushIsPartialMerge ==
    [][/\ handleSave =>
             IF hasUnsavedAppChanges
             THEN /\ updateApp'.variables = pendingAppChanges
                  /\ saveClosure' = pendingProjectChanges
             ELSE /\ updateProject'.variables = pendingProjectChanges
                  /\ updateProject'.project = projectName
       /\ (UpdateAppSucceeds /\ savePc = "app") =>
             /\ \A k \in AppKeys :
                   storeApp'[k] = IF k \in DOMAIN updateApp.variables
                                  THEN updateApp.variables[k] ELSE storeApp[k]
             /\ storeProject' = storeProject
             /\ DOMAIN saveClosure # {} => updateProject'.variables = saveClosure
       /\ UpdateProjectSucceeds =>
             /\ storeApp' = storeApp
             /\ \A p \in Projects, k \in ProjectEditKeys :
                   storeProject'[p][k] =
                       IF p = updateProject.project /\ k \in DOMAIN updateProject.variables
                       THEN updateProject.variables[k] ELSE storeProject[p][k]]_vars

\* C24 witness: one save, and nothing else, has been written in full: the
\* app store has the new yoloMode and its other keys as before, project p1
\* has a new autoCommit override and its yoloMode override as before.
C24_Witness ==
    /\ writes = 1 /\ saveRun = "done"
    /\ storeApp = [SchemaDefault EXCEPT !["yoloMode"] = "true"]
    /\ storeProject["p1"]["yoloMode"] = "true"
    /\ storeProject["p1"]["autoCommit"] = "false"
    /\ storeProject["p2"] = NoOverrides

\* C25: while the modal is closed both buffers are empty, and a step that
\* opens or closes it ends with both buffers empty.
C25_BuffersEmptyWhenClosed ==
    /\ ~isOpen => ~hasUnsavedChanges
    /\ [][/\ ~isOpen' => ~hasUnsavedChanges'
          /\ isOpen' # isOpen => ~hasUnsavedChanges']_vars

\* C25 witness: the modal was closed during the app flush of a save and has
\* been opened again, with nothing in its buffers.
C25_Witness ==
    /\ isOpen
    /\ savePc = "app"
    /\ saveRun = "interrupted"
    /\ ~hasUnsavedChanges

\* C26: while updateApp or updateProject is pending no edit step is
\* possible, neither at app scope nor at project scope, whatever the key.
C26_EditsIgnoredWhileSaving ==
    isSaving =>
        \A k \in Keys, v \in Val :
            /\ ~ENABLED handleAppChange(k, v)
            /\ ~ENABLED handleProjectChange(k, v)

\* C26 witness: a write is pending with both tabs on screen and a further
\* write within the bound.
C26_Witness ==
    /\ isSaving
    /\ AppTabShown /\ ProjectTabShown
    /\ writes < MaxWrites

\* C27: save starts with the app write when the app buffer has entries and
\* with the project write otherwise; a project write of a save is started
\* only by save itself with an empty app buffer or by the success of its app
\* write; when the app write fails no project write is started, the save is
\* over, and both buffers and the store are as they were.
C27_AppFlushBeforeProject ==
    [][/\ handleSave =>
             IF hasUnsavedAppChanges
             THEN updateApp'.status = "pending" /\ UNCHANGED updateProject
             ELSE updateProject'.status = "pending" /\ UNCHANGED updateApp
       /\ (updateProject' # updateProject /\ updateProject'.status = "pending") =>
             \/ handleSave /\ ~hasUnsavedAppChanges
             \/ UpdateAppSucceeds /\ savePc = "app"
       /\ (UpdateAppFails /\ savePc = "app") =>
             /\ UNCHANGED <<updateProject, bufferVars, storeVars>>
             /\ savePc' = "idle" /\ saveClosure' = EmptyMap
             /\ SaveUndisturbed =>
                   /\ pendingAppChanges' = updateApp.variables
                   /\ pendingProjectChanges' = saveClosure]_vars

\* C27 witness: a save of both buffers failed at its app write; no project
\* write was started and both buffers hold their entries.
C27_Witness ==
    /\ writes = 1 /\ saveRun = "failed"
    /\ updateApp.status = "error"
    /\ updateProject.status = "idle"
    /\ hasUnsavedAppChanges
    /\ DOMAIN pendingProjectChanges = ProjectEditKeys

\* C28: a save whose project flush fails ends with the app buffer empty and
\* the project buffer holding the entries of the failed write; the save that
\* follows it starts one write only, the project write with exactly those
\* entries, and neither it nor its success touches the app scope.
C28_RetryWritesProjectOnly ==
    [][/\ (UpdateProjectFails /\ SaveUndisturbed) =>
             /\ pendingAppChanges' = EmptyMap
             /\ pendingProjectChanges' = updateProject.variables
       /\ (handleSave /\ saveRun = "failed" /\ ~hasUnsavedAppChanges) =>
             /\ updateProject' = Pending(pendingProjectChanges, projectName)
             /\ saveClosure' = EmptyMap
             /\ UNCHANGED <<updateApp, resetAppSettings, storeVars>>
       /\ (UpdateProjectSucceeds /\ saveRun = "retry") =>
             /\ storeApp' = storeApp
             /\ UNCHANGED updateApp]_vars

\* C28 witness: a save flushed yoloMode to the app store and failed at its
\* project write; the save that followed has only its project write in flight.
C28_Witness ==
    /\ writes = 2 /\ saveRun = "retry"
    /\ storeApp["yoloMode"] = "true"
    /\ updateApp.status = "success"
    /\ updateProject.status = "pending"
    /\ updateProject.variables = pendingProjectChanges

\* C29: a project write started while the entries of the project buffer were
\* all entered under one selected project goes to that project.
C29_FlushGoesToProjectOfEntry ==
    [][(updateProject' # updateProject /\ updateProject'.status = "pending"
          /\ bufferProject \in Projects) =>
              updateProject'.project = bufferProject]_vars

\* the buffer after is the buffer before with the entry of k set to v
SetsOnly(before, after, k, v) ==
    /\ DOMAIN after = (DOMAIN before) \cup {k}
    /\ after[k] = v
    /\ \A j \in (DOMAIN before) \ {k} : after[j] = before[j]

\* the buffer after is the buffer before without the entry of k
RemovesOnly(before, after, k) ==
    /\ DOMAIN after = (DOMAIN before) \ {k}
    /\ \A j \in DOMAIN after : after[j] = before[j]

SaveEndsInSuccess ==
    /\ savePc # "idle" /\ savePc' = "idle"
    /\ \/ updateApp.status = "pending" /\ updateApp'.status = "success"
       \/ updateProject.status = "pending" /\ updateProject'.status = "success"

\* C31: when every issued flush settles, a save that has begun leads to a
\* state that is not saving; and a save whose flushes all succeed ends in a
\* state where both buffers are empty, nothing is unsaved and the edit
\* handlers are past their isSaving guard.
C31_SaveLeavesSavingState ==
    /\ (savePc # "idle") ~> (savePc = "idle" /\ ~isSaving)
    /\ [][SaveEndsInSuccess =>
             (/\ pendingAppChanges = EmptyMap
              /\ pendingProjectChanges = EmptyMap
              /\ ~hasUnsavedChanges
              /\ ~isSaving)']_vars

\* C31 witness: a save of both buffers has ended with both flushes resolved.
C31_Witness ==
    /\ saveRun = "done"
    /\ updateApp.status = "success" /\ updateProject.status = "success"
    /\ ~isSaving /\ ~hasUnsavedChanges

\* C32: showWarning is true exactly when consecutiveFailures is at least 3,
\* and the banner shows the warning only then; a failed check raises
\* consecutiveFailures by exactly one; a successful check sets it to 0 and
\* the warning is not shown after it.
C32_WarningAfterThreeFailures ==
    /\ [](/\ showWarning <=> consecutiveFailures >= 3
          /\ ServerStatusBanner = "warning" => consecutiveFailures >= 3)
    /\ [][\A c \in Callers :
             /\ HealthCheckFailed(c) =>
                    consecutiveFailures' = consecutiveFailures + 1
             /\ HealthCheckOk(c) =>
                    (consecutiveFailures = 0 /\ ~showWarning
                       /\ ServerStatusBanner # "warning")']_vars

\* C32 witness: the fourth failed check in a row has settled and the banner
\* shows the warning.
C32_Witness ==
    /\ consecutiveFailures = 4
    /\ lastResult = [outcome |-> "failed", failuresBefore |-> 3]
    /\ showWarning
    /\ ServerStatusBanner = "warning"

\* C33: isRecovering is true exactly in the state left by a successful check
\* that found 3 or more consecutive failures; the next settled check, ok or
\* failed, leaves it false.
C33_RecoveringIsTransient ==
    /\ [](isRecovering <=>
             (lastResult.outcome = "ok" /\ lastResult.failuresBefore >= 3))
    /\ [][\A c \in Callers :
             /\ HealthCheckOk(c) => (isRecovering' <=> consecutiveFailures >= 3)
             /\ (isRecovering /\ (HealthCheckOk(c) \/ HealthCheckFailed(c))) =>
                    ~isRecovering']_vars

\* C33 witness: a check has succeeded after three failed ones and the banner
\* says that the connection is restored.
C33_Witness ==
    /\ isRecovering
    /\ lastResult = [outcome |-> "ok", failuresBefore |-> 3]
    /\ ServerStatusBanner = "restored"

\* C34: in every state isHealthy = (consecutiveFailures < 3) = ~showWarning,
\* and isRecovering and showWarning are not both true, whatever the order in
\* which the checks of the interval and of retryNow settle.
C34_HealthStateConsistent ==
    /\ isHealthy <=> consecutiveFailures < 3
    /\ (consecutiveFailures < 3) <=> ~showWarning
    /\ ~(isRecovering /\ showWarning)

\* C34 witness: the third failure has been counted while a check of the
\* interval and a check of retryNow are both still under way.
C34_Witness ==
    /\ consecutiveFailures = 3 /\ ~isHealthy
    /\ checksInFlight["interval"] > 0 /\ checksInFlight["retry"] > 0

====
